---- MODULE Spec2Model ----
(***************************************************************************)
(* Model of scripts/simple_pdf_server.py: the extraction function          *)
(* parse_pdf_simple and the two Flask routes POST /parse and GET /health.  *)
(*                                                                         *)
(* A text (the text of a span, the content of a block) is the sequence of  *)
(* the code points of its characters, so that every character str.strip()  *)
(* tells apart can occur; a block id is a sequence of one-character        *)
(* strings.  Python dictionaries are records                               *)
(* whose domain is the set of keys present, so that dict.get and a         *)
(* KeyError on d["k"] can be told apart.  An error message is the sequence *)
(* of the pieces that the code concatenates; the prefix that line 75 puts   *)
(* first is not ASCII and is the sequence of its code points.              *)
(***************************************************************************)
EXTENDS Integers, Sequences, FiniteSets, TLC

---------------------------------------------------------------------------
(* Bounds of the model *)

MaxRequests == 2
MaxHealth == 2
MaxPages == 2
MaxBlocks == 2
MaxLines == 2
MaxSpans == 2

Requests == 1..MaxRequests

SeqsUpTo(S, n) == UNION {[1..k -> S] : k \in 0..n}

---------------------------------------------------------------------------
(* Raw documents, as PyMuPDF reports them *)

\* spans as page.get_text("dict") yields them: one with text "a", one with a
\* blank, one without the key "text"
SpanChoices == {[text |-> <<97>>], [text |-> <<32>>], [size |-> 10]}

\* a line is a dict with a "spans" list; one choice has no "spans" key
LineChoices ==
    {[spans |-> s] : s \in SeqsUpTo(SpanChoices, MaxSpans)} \cup {[wmode |-> 0]}

\* text blocks (type 0) with every bounded line structure, and one without "lines"
TextBlocks ==
    {[type |-> 0, bbox |-> <<1, 1, 9, 2>>, lines |-> ls] :
        ls \in SeqsUpTo(LineChoices, MaxLines)}
    \cup {[type |-> 0, bbox |-> <<1, 1, 9, 2>>]}

TextHi ==
    [type |-> 0, bbox |-> <<10, 10, 90, 20>>,
     lines |-> << [spans |-> << [text |-> <<32, 72>>], [size |-> 10],
                                [text |-> <<105, 9>>] >>],
                  [spans |-> << [text |-> <<33, 160>>] >>] >>]

TextBlank ==
    [type |-> 0, bbox |-> <<10, 30, 90, 40>>,
     lines |-> << [spans |-> << [text |-> <<11, 32>>], [text |-> <<>>] >>] >>]

ImageBlock == [type |-> 1, bbox |-> <<10, 50, 90, 99>>, ext |-> "png"]

OtherBlock == [type |-> 2]

NoKindBlock == [bbox |-> <<0, 0, 5, 5>>]

TextNoBBox == [type |-> 0, lines |-> << [spans |-> << [text |-> <<120>>] >>] >>]

ImageNoBBox == [type |-> 1, ext |-> "jpg"]

SampleBlocks ==
    {TextHi, TextBlank, ImageBlock, OtherBlock, NoKindBlock, TextNoBBox, ImageNoBBox}

ReadablePage(w, h, bs) == [readable |-> TRUE, width |-> w, height |-> h, blocks |-> bs]

PageOne == ReadablePage(612, 792, <<TextHi, ImageBlock>>)

PageBlank == ReadablePage(595, 842, <<>>)

PageMixed == ReadablePage(612, 792, <<OtherBlock, TextBlank, ImageBlock, NoKindBlock, TextHi>>)

PageBadBlock == ReadablePage(612, 792, <<ImageBlock, TextNoBBox, TextHi>>)

PageBad == [readable |-> FALSE, error |-> "cannot load page"]

SamplePages == {PageOne, PageBlank, PageMixed, PageBadBlock, PageBad}

NoFile == [exists |-> FALSE]

Document(ps) == [exists |-> TRUE, pages |-> ps]

\* documents of up to MaxPages sample pages
PageDocs == {Document(ps) : ps \in SeqsUpTo(SamplePages, MaxPages)}

\* one-page documents of up to MaxBlocks sample blocks
BlockDocs ==
    {Document(<<ReadablePage(612, 792, bs)>>) : bs \in SeqsUpTo(SampleBlocks, MaxBlocks)}

\* one-page, one-block documents over every bounded text structure
TextDocs == {Document(<<ReadablePage(612, 792, <<b>>)>>) : b \in TextBlocks}

\* every character str.strip() removes, and characters next to them that it
\* keeps (NUL, BS, SO, ESC, DEL, U+180E, U+200B, U+FEFF)
ProbeChars ==
    (9..13) \cup (28..32) \cup {133, 160, 5760} \cup (8192..8202)
    \cup {8232, 8233, 8239, 8287, 12288}
    \cup {0, 8, 14, 27, 127, 6158, 8203, 65279}

\* one-span texts with a probe character alone, before, after and inside "a"
ProbeTexts ==
    UNION {{<<c>>, <<c, 97>>, <<97, c>>, <<97, c, 97>>, <<c, 97, c>>} : c \in ProbeChars}

\* one-page, one-block, one-span documents over the probe texts
ProbeDocs ==
    {Document(<<ReadablePage(612, 792,
                  <<[type |-> 0, bbox |-> <<1, 1, 9, 2>>,
                     lines |-> << [spans |-> << [text |-> t] >>] >>]>>)>>) :
        t \in ProbeTexts}

CallDocs == PageDocs \cup BlockDocs \cup TextDocs \cup ProbeDocs

Paths == {"a.pdf", "b.pdf", "c.pdf", "d.pdf"}

\* the files of the service specification: the two-page scenario of the
\* documentation, a document whose second page cannot be read, a missing file,
\* a document whose second page holds a text block without bounding box
ServiceFiles ==
    [p \in Paths |->
        IF p = "a.pdf" THEN Document(<<PageOne, PageBlank>>)
        ELSE IF p = "b.pdf" THEN Document(<<PageOne, PageBad>>)
        ELSE IF p = "d.pdf" THEN Document(<<PageMixed, PageBadBlock>>)
        ELSE NoFile]

\* request.json: a JSON object (a dict), or JSON null (None)
Bodies ==
    {[kind |-> "null"]}
    \cup {[kind |-> "object", data |-> d] :
            d \in {[file |-> "a.pdf"], [pdf_path |-> ""]}
                  \cup {[pdf_path |-> p] : p \in Paths}}

NoRequest == [kind |-> "none"]

NoResponse == [status |-> 0]

NoResult == [kind |-> "none"]

---------------------------------------------------------------------------
(* State *)

VARIABLES
    files,      \* path -> document on disk (read only)
    handles,    \* the documents opened so far by fitz.open: path and open flag
    pc,         \* request -> position of its handler
    request,    \* request -> body of the POST /parse request
    pdf_path,   \* request -> local pdf_path of parse_pdf
    doc,        \* request -> local doc of parse_pdf_simple (index in handles, 0: unset)
    page_num,   \* request -> loop variable of parse_pdf_simple
    pages,      \* request -> local pages of parse_pdf_simple
    result,     \* request -> how parse_pdf_simple ended (returned value or raised message)
    response,   \* request -> HTTP response of POST /parse
    health      \* responses of GET /health served so far

vars == <<files, handles, pc, request, pdf_path, doc, page_num, pages, result, response, health>>

---------------------------------------------------------------------------
(* Pure helpers of parse_pdf_simple *)

\* dict.get(k, default)
Get(d, k, default) == IF k \in DOMAIN d THEN d[k] ELSE default

\* block.get("type") == k
HasKind(block, k) == "type" \in DOMAIN block /\ block.type = k

\* the code points str.strip() removes: the characters c with c.isspace()
Whitespace ==
    {9, 10, 11, 12, 13, 28, 29, 30, 31, 32, 133, 160, 5760,
     8192, 8193, 8194, 8195, 8196, 8197, 8198, 8199, 8200, 8201, 8202,
     8232, 8233, 8239, 8287, 12288}

RECURSIVE LStrip(_)
LStrip(s) ==
    IF s # <<>> /\ Head(s) \in Whitespace THEN LStrip(Tail(s)) ELSE s

RECURSIVE RStrip(_)
RStrip(s) ==
    IF s # <<>> /\ s[Len(s)] \in Whitespace THEN RStrip(SubSeq(s, 1, Len(s) - 1)) ELSE s

\* a strip that forgets the trailing whitespace
StripLeftOnly(s) == LStrip(s)

\* str.strip()
Strip(s) == RStrip(LStrip(s))

\* the inner loop: text += span.get("text", "")
RECURSIVE SpansText(_)
SpansText(spans) ==
    IF spans = <<>> THEN <<>>
    ELSE Get(Head(spans), "text", <<>>) \o SpansText(Tail(spans))

\* the code point of "\n"
LF == 10

\* the outer loop: the spans of each line, then "\n"
RECURSIVE LinesText(_)
LinesText(lines) ==
    IF lines = <<>> THEN <<>>
    ELSE SpansText(Get(Head(lines), "spans", <<>>)) \o <<LF>> \o LinesText(Tail(lines))

BlockText(block) == LinesText(Get(block, "lines", <<>>))

Digit(d) ==
    CASE d = 0 -> "0" [] d = 1 -> "1" [] d = 2 -> "2" [] d = 3 -> "3" [] d = 4 -> "4"
      [] d = 5 -> "5" [] d = 6 -> "6" [] d = 7 -> "7" [] d = 8 -> "8" [] d = 9 -> "9"

\* str(n) of a natural number
RECURSIVE IntToStr(_)
IntToStr(n) == IF n < 10 THEN <<Digit(n)>> ELSE IntToStr(n \div 10) \o <<Digit(n % 10)>>

\* an id that leaves out the page number
MakeIdNoPage(pageNumber, idx) == <<"e", "l", "_">> \o IntToStr(idx)

\* f"el_{page_num + 1}_{idx}"
MakeId(pageNumber, idx) ==
    <<"e", "l", "_">> \o IntToStr(pageNumber) \o <<"_">> \o IntToStr(idx)

TextElement(pageNumber, idx, bbox, text) ==
    [id |-> MakeId(pageNumber, idx), type |-> "text", bbox |-> bbox,
     pageIndex |-> pageNumber, content |-> Strip(text)]

\* an image block built like a text block, with an empty content
ImageElementWithContent(pageNumber, idx, bbox) ==
    [id |-> MakeId(pageNumber, idx), type |-> "image", bbox |-> bbox,
     pageIndex |-> pageNumber, content |-> <<>>]

ImageElement(pageNumber, idx, bbox) ==
    [id |-> MakeId(pageNumber, idx), type |-> "image", bbox |-> bbox,
     pageIndex |-> pageNumber]

\* elements.insert(0, el)
EmitFirst(elements, el) == <<el>> \o elements

\* elements.append(el)
Emit(elements, el) == Append(elements, el)

KeyErrorBBox == <<"'bbox'">>

\* the loop over enumerate(blocks), from index idx on: the elements of the page,
\* or the message of the exception that block["bbox"] raises
RECURSIVE Elements(_, _, _, _)
Elements(blocks, idx, pageNumber, elements) ==
    IF idx = Len(blocks) THEN [ok |-> TRUE, elements |-> elements]
    ELSE LET block == blocks[idx + 1] IN
         IF HasKind(block, 0) THEN
             IF "bbox" \notin DOMAIN block THEN [ok |-> FALSE, error |-> KeyErrorBBox]
             ELSE IF Strip(BlockText(block)) # <<>>
                  THEN Elements(blocks, idx + 1, pageNumber,
                           Emit(elements,
                                TextElement(pageNumber, idx, block.bbox, BlockText(block))))
                  ELSE Elements(blocks, idx + 1, pageNumber, elements)
         ELSE IF HasKind(block, 1) THEN
             IF "bbox" \notin DOMAIN block THEN [ok |-> FALSE, error |-> KeyErrorBBox]
             ELSE Elements(blocks, idx + 1, pageNumber,
                      Emit(elements, ImageElement(pageNumber, idx, block.bbox)))
         ELSE Elements(blocks, idx + 1, pageNumber, elements)

\* a page entry that carries the zero-based loop variable
PageEntryZeroBased(pageNumber, page, elements) ==
    [pageIndex |-> pageNumber - 1, width |-> page.width, height |-> page.height,
     blocks |-> elements]

PageEntry(pageNumber, page, elements) ==
    [pageIndex |-> pageNumber, width |-> page.width, height |-> page.height,
     blocks |-> elements]

\* the literal prefix of the message raised at line 75, as the code points of
\* its six characters: U+89E3 U+6790 U+5931 U+8D25 ":" " "
FailurePrefix == <<35299, 26512, 22833, 36133, 58, 32>>

---------------------------------------------------------------------------
(* POST /parse *)

\* not pdf_path, for pdf_path = data.get('pdf_path')
NotPdfPath(data) == "pdf_path" \notin DOMAIN data \/ data.pdf_path = ""

AttributeErrorMessage == <<"'NoneType' object has no attribute 'get'">>

Respond(r, status, body) ==
    /\ response' = [response EXCEPT ![r] = [status |-> status, body |-> body]]
    /\ pc' = [pc EXCEPT ![r] = "done"]

\* parse_pdf up to the call of parse_pdf_simple, for a request with JSON body b
ParsePdf(r, b) ==
    /\ pc[r] = "idle"
    /\ request' = [request EXCEPT ![r] = b]
    /\ IF b.kind # "object"
       THEN \* data is None: data.get raises, caught by the handler's except
            /\ Respond(r, 500, [error |-> AttributeErrorMessage])
            /\ UNCHANGED pdf_path
       ELSE IF NotPdfPath(b.data)
       THEN /\ Respond(r, 400, [error |-> <<"PDF path required">>])
            /\ UNCHANGED pdf_path
       ELSE /\ pdf_path' = [pdf_path EXCEPT ![r] = b.data.pdf_path]
            /\ pc' = [pc EXCEPT ![r] = "call"]
            /\ UNCHANGED response
    /\ UNCHANGED <<files, handles, doc, page_num, pages, result, health>>

\* an except clause that returns the pages assembled so far
ExceptHandlerPartial(r, cause) ==
    /\ result' = [result EXCEPT ![r] =
                     [kind |-> "return",
                      value |-> [pageCount |-> Len(pages[r]), pages |-> pages[r]]]]
    /\ pc' = [pc EXCEPT ![r] = "returned"]

\* except Exception as e: raise Exception(f"...: {str(e)}")
ExceptHandler(r, cause) ==
    /\ result' = [result EXCEPT ![r] = [kind |-> "raise", msg |-> <<FailurePrefix>> \o cause]]
    /\ pc' = [pc EXCEPT ![r] = "raised"]

\* an open that keeps one document per path and hands it to every request
OpenDocumentShared(r) ==
    /\ pc[r] = "call"
    /\ IF ~files[pdf_path[r]].exists
       THEN /\ ExceptHandler(r, <<"no such file: '", pdf_path[r], "'">>)
            /\ UNCHANGED <<handles, doc, page_num, pages>>
       ELSE /\ IF \E h \in 1..Len(handles) : handles[h].path = pdf_path[r]
               THEN /\ doc' = [doc EXCEPT ![r] =
                                  CHOOSE h \in 1..Len(handles) : handles[h].path = pdf_path[r]]
                    /\ UNCHANGED handles
               ELSE /\ handles' = Append(handles, [path |-> pdf_path[r], open |-> TRUE])
                    /\ doc' = [doc EXCEPT ![r] = Len(handles) + 1]
            /\ page_num' = [page_num EXCEPT ![r] = 0]
            /\ pages' = [pages EXCEPT ![r] = <<>>]
            /\ pc' = [pc EXCEPT ![r] = "loop"]
            /\ UNCHANGED result
    /\ UNCHANGED <<files, request, pdf_path, response, health>>

\* doc = fitz.open(pdf_path); pages = []
OpenDocument(r) ==
    /\ pc[r] = "call"
    /\ IF ~files[pdf_path[r]].exists
       THEN /\ ExceptHandler(r, <<"no such file: '", pdf_path[r], "'">>)
            /\ UNCHANGED <<handles, doc, page_num, pages>>
       ELSE /\ handles' = Append(handles, [path |-> pdf_path[r], open |-> TRUE])
            /\ doc' = [doc EXCEPT ![r] = Len(handles) + 1]
            /\ page_num' = [page_num EXCEPT ![r] = 0]
            /\ pages' = [pages EXCEPT ![r] = <<>>]
            /\ pc' = [pc EXCEPT ![r] = "loop"]
            /\ UNCHANGED result
    /\ UNCHANGED <<files, request, pdf_path, response, health>>

\* len(doc)
PageCount(r) == Len(files[handles[doc[r]].path].pages)

DocumentClosed == <<"document closed">>

\* one iteration of the loop over the pages
ReadPage(r) ==
    /\ pc[r] = "loop"
    /\ page_num[r] < PageCount(r)
    /\ LET pageNumber == page_num[r] + 1
           page == files[handles[doc[r]].path].pages[pageNumber]
       IN  IF ~handles[doc[r]].open
           THEN ExceptHandler(r, DocumentClosed) /\ UNCHANGED <<page_num, pages>>
           ELSE IF ~page.readable
           THEN ExceptHandler(r, <<page.error>>) /\ UNCHANGED <<page_num, pages>>
           ELSE LET got == Elements(page.blocks, 0, pageNumber, <<>>) IN
                IF ~got.ok
                THEN ExceptHandler(r, got.error) /\ UNCHANGED <<page_num, pages>>
                ELSE /\ pages' = [pages EXCEPT ![r] =
                                     Append(@, PageEntry(pageNumber, page, got.elements))]
                     /\ page_num' = [page_num EXCEPT ![r] = pageNumber]
                     /\ UNCHANGED <<pc, result>>
    /\ UNCHANGED <<files, handles, request, pdf_path, doc, response, health>>

\* doc.close(); return {"pageCount": len(pages), "pages": pages}
CloseAndReturn(r) ==
    /\ pc[r] = "loop"
    /\ page_num[r] = PageCount(r)
    /\ IF ~handles[doc[r]].open
       THEN ExceptHandler(r, DocumentClosed) /\ UNCHANGED handles
       ELSE /\ handles' = [handles EXCEPT ![doc[r]].open = FALSE]
            /\ result' = [result EXCEPT ![r] =
                             [kind |-> "return",
                              value |-> [pageCount |-> Len(pages[r]), pages |-> pages[r]]]]
            /\ pc' = [pc EXCEPT ![r] = "returned"]
    /\ UNCHANGED <<files, request, pdf_path, doc, page_num, pages, response, health>>

\* return jsonify({'structure': structure})
RespondStructure(r) ==
    /\ pc[r] = "returned"
    /\ Respond(r, 200, [structure |-> result[r].value])
    /\ UNCHANGED <<files, handles, request, pdf_path, doc, page_num, pages, result, health>>

\* except Exception as e: return jsonify({'error': str(e)}), 500
RespondError(r) ==
    /\ pc[r] = "raised"
    /\ Respond(r, 500, [error |-> result[r].msg])
    /\ UNCHANGED <<files, handles, request, pdf_path, doc, page_num, pages, result, health>>

---------------------------------------------------------------------------
(* GET /health *)

\* a health check that probes the extraction and reports a failed request
HealthResponseProbing ==
    IF \E r \in Requests : pc[r] = "raised"
    THEN [status |-> 503, body |-> [status |-> "error", backend |-> "simple-pymupdf"]]
    ELSE [status |-> 200, body |-> [status |-> "ok", backend |-> "simple-pymupdf"]]

HealthResponse == [status |-> 200, body |-> [status |-> "ok", backend |-> "simple-pymupdf"]]

Health ==
    /\ Len(health) < MaxHealth
    /\ health' = Append(health, HealthResponse)
    /\ UNCHANGED <<files, handles, pc, request, pdf_path, doc, page_num, pages, result, response>>

---------------------------------------------------------------------------
(* Specifications *)

InitLocals ==
    /\ handles = <<>>
    /\ pc = [r \in Requests |-> "idle"]
    /\ request = [r \in Requests |-> NoRequest]
    /\ pdf_path = [r \in Requests |-> ""]
    /\ doc = [r \in Requests |-> 0]
    /\ page_num = [r \in Requests |-> 0]
    /\ pages = [r \in Requests |-> <<>>]
    /\ result = [r \in Requests |-> NoResult]
    /\ response = [r \in Requests |-> NoResponse]
    /\ health = <<>>

Step(r) ==
    \/ \E b \in Bodies : ParsePdf(r, b)
    \/ OpenDocument(r)
    \/ ReadPage(r)
    \/ CloseAndReturn(r)
    \/ RespondStructure(r)
    \/ RespondError(r)

\* the service: concurrent requests against a fixed set of files
Init == files = ServiceFiles /\ InitLocals

Next == (\E r \in Requests : Step(r)) \/ Health

Spec == Init /\ [][Next]_vars

\* one request at a time against a.pdf, whose content ranges over CallDocs
InitCall ==
    /\ files \in {[p \in Paths |-> IF p = "a.pdf" THEN d ELSE NoFile] : d \in CallDocs}
    /\ InitLocals

NextCall == Step(1)

SpecCall == InitCall /\ [][NextCall]_vars

---------------------------------------------------------------------------
(* Vocabulary of the properties *)

\* the call of parse_pdf_simple made for request r has ended
CallEnded(r) == result[r].kind # "none"

\* the document that request r asked for
RawDoc(r) == files[pdf_path[r]]

\* the handler of request r is past the end of its call of parse_pdf_simple
AfterCall(r) == pc[r] \in {"returned", "raised", "done"}

BodyLacksPath(b) ==
    b.kind # "object" \/ "pdf_path" \notin DOMAIN b.data \/ b.data.pdf_path = ""

KindOf(block) == IF "type" \in DOMAIN block THEN block.type ELSE -1

\* a block whose bounding box the code reads and that has none
BlockUnreadable(block) == KindOf(block) \in {0, 1} /\ "bbox" \notin DOMAIN block

PageFails(page) ==
    ~page.readable \/ \E j \in 1..Len(page.blocks) : BlockUnreadable(page.blocks[j])

\* opening the document fails, or some extraction step does
CallFails(path) ==
    ~files[path].exists \/ \E k \in 1..Len(files[path].pages) : PageFails(files[path].pages[k])

\* the messages of the failures that a call on path can meet
FailureCauses(path) ==
    IF ~files[path].exists THEN {<<"no such file: '", path, "'">>}
    ELSE {<<files[path].pages[k].error>> :
             k \in {n \in 1..Len(files[path].pages) : ~files[path].pages[n].readable}}
         \cup {<<"'bbox'">>}

\* el_<p>_<i>
ElId(p, i) == <<"e", "l", "_">> \o IntToStr(p) \o <<"_">> \o IntToStr(i)

RECURSIVE Concat(_)
Concat(ss) ==
    IF Len(ss) = 0 THEN <<>> ELSE Concat(SubSeq(ss, 1, Len(ss) - 1)) \o ss[Len(ss)]

\* the texts of the spans of a block, a newline after each line
RawText(block) ==
    LET lines == IF "lines" \in DOMAIN block THEN block.lines ELSE <<>>
        spansOf(l) == IF "spans" \in DOMAIN l THEN l.spans ELSE <<>>
        textOf(sp) == IF "text" \in DOMAIN sp THEN sp.text ELSE <<>>
        lineText(l) == Concat([j \in 1..Len(spansOf(l)) |-> textOf(spansOf(l)[j])])
    IN  Concat([i \in 1..Len(lines) |-> lineText(lines[i]) \o <<10>>])

\* c is a whitespace character of Unicode: a control TAB..CR or FS..US, the
\* space, NEL, the no-break space, or a space or separator of the higher planes
Blank(c) ==
    \/ (9 <= c /\ c <= 13) \/ (28 <= c /\ c <= 32) \/ c = 133 \/ c = 160 \/ c = 5760
    \/ (8192 <= c /\ c <= 8202) \/ c = 8232 \/ c = 8233 \/ c = 8239 \/ c = 8287
    \/ c = 12288

\* s without its leading and trailing whitespace
Trimmed(s) ==
    LET solid == {i \in 1..Len(s) : ~Blank(s[i])} IN
    IF solid = {} THEN <<>>
    ELSE SubSeq(s, CHOOSE i \in solid : \A j \in solid : i <= j,
                   CHOOSE i \in solid : \A j \in solid : i >= j)

\* the positions of the emitted blocks of page k of request r that carry the id
\* of raw position j (counted from 1)
EmittedFor(r, k, j) ==
    LET out == result[r].value.pages[k].blocks IN
    {i \in 1..Len(out) : out[i].id = ElId(k, j - 1)}

RawBlocks(r, k) == RawDoc(r).pages[k].blocks

OutBlocks(r, k) == result[r].value.pages[k].blocks

Returned(r) == result[r].kind = "return"

---------------------------------------------------------------------------
(* Properties *)

\* C1: once the call of parse_pdf_simple has ended, by return or by raise, the
\* document handle it opened is closed.
C1_HandleClosedAfterCall ==
    \A r \in Requests :
        (AfterCall(r) /\ doc[r] # 0) => ~handles[doc[r]].open

\* C2: a POST /parse request whose body has no pdf_path or an empty one is
\* answered 400 {"error": "PDF path required"} and parse_pdf_simple is not called.
C2_MissingPathIs400 ==
    \A r \in Requests :
        (pc[r] # "idle" /\ BodyLacksPath(request[r])) =>
            /\ pc[r] = "done"
            /\ response[r] = [status |-> 400, body |-> [error |-> <<"PDF path required">>]]
            /\ ~CallEnded(r)
            /\ doc[r] = 0

\* C3: a call that meets a failure (open, page or block) raises one error that
\* wraps the cause's message and returns nothing, and POST /parse answers 500
\* with the key error and no key structure.
C3_AllOrNothing ==
    \A r \in Requests :
        /\ (CallEnded(r) /\ CallFails(pdf_path[r])) => result[r].kind = "raise"
        /\ result[r].kind = "raise" =>
              /\ DOMAIN result[r] = {"kind", "msg"}
              /\ Head(result[r].msg) = <<35299, 26512, 22833, 36133, 58, 32>>
              /\ Tail(result[r].msg) \in FailureCauses(pdf_path[r])
              /\ pc[r] = "done" =>
                    /\ response[r].status = 500
                    /\ DOMAIN response[r].body = {"error"}
                    /\ response[r].body.error = result[r].msg

\* a request failed on a later page, after a page had been assembled, and was answered
C3_Witness ==
    \E r \in Requests :
        pc[r] = "done" /\ result[r].kind = "raise" /\ Len(pages[r]) >= 1

\* C4: a successful result has pageCount and the length of pages equal to the
\* number of pages of the document, and its k-th entry has pageIndex k and the
\* size and the blocks of the k-th page.
C4_PagesInOrder ==
    \A r \in Requests :
        Returned(r) =>
            LET v == result[r].value
                d == RawDoc(r)
            IN  /\ v.pageCount = Len(d.pages)
                /\ Len(v.pages) = Len(d.pages)
                /\ \A k \in 1..Len(v.pages) :
                      /\ v.pages[k].pageIndex = k
                      /\ v.pages[k].width = d.pages[k].width
                      /\ v.pages[k].height = d.pages[k].height
                      /\ \A i \in 1..Len(v.pages[k].blocks) :
                            \E j \in 1..Len(d.pages[k].blocks) :
                                /\ "bbox" \in DOMAIN d.pages[k].blocks[j]
                                /\ v.pages[k].blocks[i].bbox = d.pages[k].blocks[j].bbox
                /\ pc[r] = "done" =>
                      response[r] = [status |-> 200, body |-> [structure |-> v]]

\* a document of two pages of different sizes was extracted and answered
C4_Witness ==
    \E r \in Requests :
        /\ pc[r] = "done" /\ Returned(r)
        /\ result[r].value.pageCount >= 2
        /\ result[r].value.pages[1].width # result[r].value.pages[2].width
        /\ result[r].value.pages[1].blocks # <<>>

\* C5: every emitted text block has a non-empty content, the trimmed
\* concatenation of its spans' texts with a newline after each line, and a raw
\* text block whose text trims to nothing is not emitted.
C5_TextContent ==
    \A r \in Requests :
        Returned(r) =>
            \A k \in 1..Len(result[r].value.pages) :
                /\ \A i \in 1..Len(OutBlocks(r, k)) :
                      OutBlocks(r, k)[i].type = "text" =>
                          /\ OutBlocks(r, k)[i].content # <<>>
                          /\ \E j \in 1..Len(RawBlocks(r, k)) :
                                /\ i \in EmittedFor(r, k, j)
                                /\ OutBlocks(r, k)[i].content
                                       = Trimmed(RawText(RawBlocks(r, k)[j]))
                /\ \A j \in 1..Len(RawBlocks(r, k)) :
                      (KindOf(RawBlocks(r, k)[j]) = 0
                          /\ Trimmed(RawText(RawBlocks(r, k)[j])) = <<>>)
                      => EmittedFor(r, k, j) = {}

\* a text block of two lines with leading whitespace and an inner newline was emitted
C5_Witness ==
    \E r \in Requests :
        /\ Returned(r)
        /\ Len(result[r].value.pages) = 1
        /\ Len(OutBlocks(r, 1)) = 1
        /\ OutBlocks(r, 1)[1].content = <<97, 10, 32, 97>>
        /\ Head(RawText(RawBlocks(r, 1)[1])) = 32

\* C6: a text-kind block yields at most one block, of type text; an image-kind
\* block exactly one, of type image, without content; a block of another kind
\* or of no kind yields none and fails nothing; emitted blocks carry the
\* 1-based index of their page.
C6_Classification ==
    \A r \in Requests :
        /\ (CallEnded(r) /\ ~CallFails(pdf_path[r])) => Returned(r)
        /\ Returned(r) =>
              \A k \in 1..Len(result[r].value.pages) :
                  /\ \A i \in 1..Len(OutBlocks(r, k)) :
                        /\ OutBlocks(r, k)[i].pageIndex = k
                        /\ \E j \in 1..Len(RawBlocks(r, k)) : i \in EmittedFor(r, k, j)
                  /\ \A j \in 1..Len(RawBlocks(r, k)) :
                        LET kind == KindOf(RawBlocks(r, k)[j])
                            outs == EmittedFor(r, k, j)
                        IN  /\ kind = 0 =>
                                  /\ Cardinality(outs) <= 1
                                  /\ \A i \in outs : OutBlocks(r, k)[i].type = "text"
                            /\ kind = 1 =>
                                  /\ Cardinality(outs) = 1
                                  /\ \A i \in outs :
                                        /\ OutBlocks(r, k)[i].type = "image"
                                        /\ DOMAIN OutBlocks(r, k)[i]
                                               = {"id", "type", "bbox", "pageIndex"}
                            /\ kind \notin {0, 1} => outs = {}

\* a page with a block of another kind without bounding box, a block of no
\* kind, an image and a text was extracted
C6_Witness ==
    \E r \in Requests :
        /\ Returned(r)
        /\ \E k \in 1..Len(result[r].value.pages) :
              /\ \E j \in 1..Len(RawBlocks(r, k)) :
                    KindOf(RawBlocks(r, k)[j]) = 2 /\ "bbox" \notin DOMAIN RawBlocks(r, k)[j]
              /\ \E j \in 1..Len(RawBlocks(r, k)) : KindOf(RawBlocks(r, k)[j]) = -1
              /\ \E i \in 1..Len(OutBlocks(r, k)) : OutBlocks(r, k)[i].type = "image"
              /\ \E i \in 1..Len(OutBlocks(r, k)) : OutBlocks(r, k)[i].type = "text"

\* C7: the emitted blocks of a page are a subsequence of its raw blocks: they
\* come from strictly increasing raw positions, which their ids carry.
C7_OrderPreserved ==
    \A r \in Requests :
        Returned(r) =>
            \A k \in 1..Len(result[r].value.pages) :
                \E f \in [1..Len(OutBlocks(r, k)) -> 1..Len(RawBlocks(r, k))] :
                    /\ \A i \in 1..Len(OutBlocks(r, k)) :
                          /\ OutBlocks(r, k)[i].id = ElId(k, f[i] - 1)
                          /\ "bbox" \in DOMAIN RawBlocks(r, k)[f[i]]
                          /\ OutBlocks(r, k)[i].bbox = RawBlocks(r, k)[f[i]].bbox
                          /\ OutBlocks(r, k)[i].type
                                 = (IF KindOf(RawBlocks(r, k)[f[i]]) = 0 THEN "text" ELSE "image")
                    /\ \A i \in 1..(Len(OutBlocks(r, k)) - 1) : f[i] < f[i + 1]

\* a page kept two blocks of different kinds and dropped blocks before and between them
C7_Witness ==
    \E r \in Requests :
        /\ Returned(r)
        /\ \E k \in 1..Len(result[r].value.pages) :
              /\ Len(OutBlocks(r, k)) = 2
              /\ Len(RawBlocks(r, k)) = 5
              /\ OutBlocks(r, k)[1].type = "image"
              /\ OutBlocks(r, k)[2].type = "text"
              /\ OutBlocks(r, k)[1].id = ElId(k, 2)
              /\ OutBlocks(r, k)[2].id = ElId(k, 4)

\* C8: every emitted block has the id el_<page number>_<zero-based position in
\* the page's raw block list>, and no two blocks of a result share an id.
C8_UniqueIds ==
    \A r \in Requests :
        Returned(r) =>
            LET ps == result[r].value.pages IN
            /\ \A k \in 1..Len(ps) : \A i \in 1..Len(ps[k].blocks) :
                  \E j \in 1..Len(RawBlocks(r, k)) :
                      /\ ps[k].blocks[i].id = ElId(k, j - 1)
                      /\ "bbox" \in DOMAIN RawBlocks(r, k)[j]
                      /\ ps[k].blocks[i].bbox = RawBlocks(r, k)[j].bbox
            /\ \A k1, k2 \in 1..Len(ps) :
                  \A i1 \in 1..Len(ps[k1].blocks) : \A i2 \in 1..Len(ps[k2].blocks) :
                      ps[k1].blocks[i1].id = ps[k2].blocks[i2].id => (k1 = k2 /\ i1 = i2)

\* two pages of a result hold blocks from the same raw position, and a block's
\* raw position differs from its position among the emitted blocks
C8_Witness ==
    \E r \in Requests :
        /\ Returned(r)
        /\ Len(result[r].value.pages) >= 2
        /\ \E i1 \in 1..Len(OutBlocks(r, 1)) : \E i2 \in 1..Len(OutBlocks(r, 2)) :
              /\ OutBlocks(r, 1)[i1].bbox = OutBlocks(r, 2)[i2].bbox
              /\ OutBlocks(r, 1)[i1].id # OutBlocks(r, 2)[i2].id
        /\ \E i \in 1..Len(OutBlocks(r, 2)) : OutBlocks(r, 2)[i].id # ElId(2, i - 1)

\* the response of POST /parse for body b when the request runs alone
RECURSIVE AlonePages(_, _, _)
AlonePages(d, k, acc) ==
    IF k > Len(d.pages) THEN [ok |-> TRUE, pages |-> acc]
    ELSE IF ~d.pages[k].readable THEN [ok |-> FALSE, error |-> <<d.pages[k].error>>]
    ELSE LET got == Elements(d.pages[k].blocks, 0, k, <<>>) IN
         IF ~got.ok THEN [ok |-> FALSE, error |-> got.error]
         ELSE AlonePages(d, k + 1, Append(acc, PageEntry(k, d.pages[k], got.elements)))

AloneResponse(b) ==
    IF b.kind # "object"
    THEN [status |-> 500, body |-> [error |-> AttributeErrorMessage]]
    ELSE IF BodyLacksPath(b)
    THEN [status |-> 400, body |-> [error |-> <<"PDF path required">>]]
    ELSE IF ~files[b.data.pdf_path].exists
    THEN [status |-> 500,
          body |-> [error |-> <<FailurePrefix, "no such file: '", b.data.pdf_path, "'">>]]
    ELSE LET got == AlonePages(files[b.data.pdf_path], 1, <<>>) IN
         IF got.ok
         THEN [status |-> 200,
               body |-> [structure |-> [pageCount |-> Len(got.pages), pages |-> got.pages]]]
         ELSE [status |-> 500, body |-> [error |-> <<FailurePrefix>> \o got.error]]

\* C9: under every interleaving each request uses a handle of its own and gets
\* the response it would get when run alone.
C9_Independent ==
    /\ \A r1, r2 \in Requests :
          (r1 # r2 /\ doc[r1] # 0 /\ doc[r2] # 0) => doc[r1] # doc[r2]
    /\ \A r \in Requests :
          /\ doc[r] # 0 => handles[doc[r]].path = pdf_path[r]
          /\ pc[r] = "done" => response[r] = AloneResponse(request[r])

\* two requests, each with a handle of its own, were answered: one with the
\* structure, one with the failure it met after its first page
C9_Witness ==
    \E r1, r2 \in Requests :
        /\ r1 # r2
        /\ pc[r1] = "done" /\ response[r1].status = 200
        /\ pc[r2] = "done" /\ response[r2].status = 500
        /\ doc[r1] # 0 /\ doc[r2] # 0
        /\ Len(pages[r2]) >= 1

\* C10: every GET /health is answered 200 with status "ok" and a backend
\* identifier, it can be served in every state, and serving it changes nothing
\* of the extraction: no handle, no request.
C10_HealthAlwaysOk ==
    /\ [](/\ \A i \in 1..Len(health) :
                /\ health[i].status = 200
                /\ health[i].body.status = "ok"
                /\ DOMAIN health[i].body = {"status", "backend"}
          /\ (Len(health) < MaxHealth => ENABLED Health))
    /\ [][health' # health =>
             (/\ Len(health') = Len(health) + 1
              /\ UNCHANGED <<files, handles, pc, request, pdf_path, doc, page_num,
                             pages, result, response>>)]_vars

\* health was served while one request had failed and another was extracting
C10_Witness ==
    /\ Len(health) >= 1
    /\ \E r1, r2 \in Requests :
          /\ result[r1].kind = "raise"
          /\ pc[r2] = "loop" /\ page_num[r2] = 1

====
